---- MODULE Spec2Model ----
(***************************************************************************)
(* The catalog client of cli/flox-rust-sdk/src/providers/catalog.rs:       *)
(* Client (Catalog | Mock), its two operations resolve and search, the     *)
(* converters between wire and domain types and the error classifier.      *)
(*                                                                         *)
(* An invocation of an async operation is a slot: it runs from the call to *)
(* the await of the remote call in one step, and from the arrival of the   *)
(* remote outcome to the return in a second step.  Vectors are sequences,  *)
(* Option<T> is a sequence of length at most one, a String that the code   *)
(* splits is a sequence of one-character strings.                          *)
(***************************************************************************)
EXTENDS Integers, Sequences, FiniteSets, TLC

VARIABLES client, endpoint, pc, op, args, request, calls, response, result

vars == <<client, endpoint, pc, op, args, request, calls, response, result>>

(***************************************************************************)
(* Bounds of the model.                                                    *)
(***************************************************************************)
MaxGroups == 2
MaxItems == 2
MaxHits == 1
MaxPathLen == 3

SeqsUpTo(S, n) == UNION {[1..k -> S] : k \in 0..n}

(***************************************************************************)
(* Program constants.                                                      *)
(***************************************************************************)
DEFAULT_CATALOG_URL == "https://flox-catalog.flox.dev"
NIXPKGS_CATALOG == "nixpkgs"

Variants == {"Catalog", "Mock"}

(***************************************************************************)
(* The wire schema (crate catalog_api_v1): the platform enumeration, the   *)
(* search term grammar and the shapes of a failed remote call.             *)
(***************************************************************************)
SystemEnum ==
  [s \in {"aarch64-darwin", "aarch64-linux", "x86_64-darwin", "x86_64-linux"} |->
     CASE s = "aarch64-darwin" -> "Aarch64Darwin"
       [] s = "aarch64-linux" -> "Aarch64Linux"
       [] s = "x86_64-darwin" -> "X8664Darwin"
       [] s = "x86_64-linux" -> "X8664Linux"]

SupportedSystems == DOMAIN SystemEnum

\* TryFrom<String> for SystemEnum
SystemEnum_try_from(system) ==
  IF system \in SupportedSystems
    THEN [ok |-> TRUE, value |-> SystemEnum[system], err |-> "-"]
    ELSE [ok |-> FALSE, value |-> "-", err |-> "ConversionError"]

\* Display for SystemEnum
SystemEnum_to_string(e) == CHOOSE s \in SupportedSystems : SystemEnum[s] = e

AcceptedTerms == {"hello", "curl"}

\* FromStr for SearchTerm
SearchTerm_from_str(term) ==
  IF term \in AcceptedTerms
    THEN [ok |-> TRUE, value |-> term, err |-> "-"]
    ELSE [ok |-> FALSE, value |-> "-", err |-> "ConversionError"]

\* the variants of APIError<ErrorResponse>
APIError ==
  {"InvalidRequest", "CommunicationError", "InvalidUpgrade", "ErrorResponse",
   "ResponseBodyError", "InvalidResponsePayload", "UnexpectedResponse",
   "PreHookError"}

(***************************************************************************)
(* Results of the two operations.  One record shape for every outcome:     *)
(* tag is Ok, Err or Panic; kind is the variant of ResolveError or         *)
(* SearchError, cause the variant of the wrapped CatalogClientError and    *)
(* source the wrapped error.                                               *)
(***************************************************************************)
NoResult ==
  [tag |-> "None", kind |-> "-", cause |-> "-", source |-> "-",
   groups |-> <<>>, results |-> <<>>, count |-> <<>>]

Err(kind, cause, source) ==
  [NoResult EXCEPT !.tag = "Err", !.kind = kind, !.cause = cause, !.source = source]

Panic == [NoResult EXCEPT !.tag = "Panic"]

NoRequest ==
  [op |-> "none", items |-> <<>>, catalogs |-> <<>>, stability |-> <<>>,
   limit |-> <<>>, term |-> "-", system |-> "-"]

NoResponse == [tag |-> "None", shape |-> "-", items |-> <<>>, total_count |-> 0]

NoArgs == [groups |-> <<>>, term |-> "-", system |-> "-", limit |-> 0]

\* #[from] CatalogClientError, for ResolveError and for SearchError
CatalogClientError_into(e) == Err("CatalogClientError", e.cause, e.source)

\* is_unexpected_error, had it also taken an error status without a schema
\* body for an error of the service
is_unexpected_error_status(error) ==
  error \notin {"ErrorResponse", "UnexpectedResponse"}

(***************************************************************************)
(* Error classifier.                                                       *)
(***************************************************************************)
\* !matches!(error, APIError::ErrorResponse(_))
is_unexpected_error(error) == error # "ErrorResponse"

\* collect::<Result<Vec<_>, _>>(): the first error, or all the values
collect(rs) ==
  IF \E i \in 1..Len(rs) : ~rs[i].ok
    THEN LET i == CHOOSE j \in 1..Len(rs) :
                    ~rs[j].ok /\ \A k \in 1..(j - 1) : rs[k].ok
         IN [ok |-> FALSE, value |-> <<>>, err |-> rs[i].err]
    ELSE [ok |-> TRUE, value |-> [i \in 1..Len(rs) |-> rs[i].value], err |-> NoResult]

(***************************************************************************)
(* Converters.                                                             *)
(***************************************************************************)
\* TryFrom<PackageGroup> for api_types::PackageGroup
PackageGroup_try_from(package_group) ==
  LET system == SystemEnum_try_from(package_group.system) IN
  IF system.ok
    THEN [ok |-> TRUE,
          value |-> [descriptors |-> package_group.descriptors,
                     name |-> package_group.name,
                     system |-> system.value,
                     stability |-> <<>>],
          err |-> NoResult]
    ELSE [ok |-> FALSE, value |-> <<>>,
          err |-> [cause |-> "UnsupportedSystem", source |-> system.err]]

\* From<api_types::CatalogPage> for CatalogPage
CatalogPage_from(catalog_page) ==
  [packages |-> catalog_page.packages,
   page |-> catalog_page.page,
   url |-> catalog_page.url]

\* the reverse conversion, had it put the pages in page order
ResolvedPackageGroup_try_from_sorted(resolved_package_group) ==
  [ok |-> TRUE,
   value |-> [name |-> resolved_package_group.name,
              pages |-> SortSeq([i \in 1..Len(resolved_package_group.pages) |->
                                   CatalogPage_from(resolved_package_group.pages[i])],
                                LAMBDA x, y : x.page < y.page),
              system |-> SystemEnum_to_string(resolved_package_group.system)],
   err |-> NoResult]

\* TryFrom<api_types::ResolvedPackageGroupInput> for ResolvedPackageGroup
ResolvedPackageGroup_try_from(resolved_package_group) ==
  [ok |-> TRUE,
   value |-> [name |-> resolved_package_group.name,
              pages |-> [i \in 1..Len(resolved_package_group.pages) |->
                           CatalogPage_from(resolved_package_group.pages[i])],
              system |-> SystemEnum_to_string(resolved_package_group.system)],
   err |-> NoResult]

\* split, had it dropped the empty segments
RECURSIVE split_skip_empty(_, _, _, _)
split_skip_empty(s, i, cur, acc) ==
  IF i > Len(s) THEN (IF cur = <<>> THEN acc ELSE Append(acc, cur))
  ELSE IF s[i] = "."
    THEN split_skip_empty(s, i + 1, <<>>, IF cur = <<>> THEN acc ELSE Append(acc, cur))
  ELSE split_skip_empty(s, i + 1, Append(cur, s[i]), acc)

\* str::split('.') as the iterator runs: i is the position, cur the segment
\* being read, acc the segments already yielded
RECURSIVE split(_, _, _, _)
split(s, i, cur, acc) ==
  IF i > Len(s) THEN Append(acc, cur)
  ELSE IF s[i] = "." THEN split(s, i + 1, <<>>, Append(acc, cur))
  ELSE split(s, i + 1, Append(cur, s[i]), acc)

\* TryFrom<PackageInfoApiInput> for SearchResult
SearchResult_try_from(package_info) ==
  [ok |-> TRUE,
   value |-> [input |-> NIXPKGS_CATALOG,
              system |-> SystemEnum_to_string(package_info.system),
              rel_path |-> split(package_info.attr_path, 1, <<>>, <<>>),
              pname |-> <<package_info.pname>>,
              version |-> <<package_info.version>>,
              description |-> <<package_info.description>>,
              license |-> <<package_info.license>>],
   err |-> NoResult]

\* the conversion of the total, had it clamped a negative total to zero
total_count_clamped(total_count) ==
  [ok |-> TRUE, value |-> IF total_count < 0 THEN 0 ELSE total_count, err |-> "-"]

\* i64 -> unsigned count: total_count.try_into()
total_count_try_into(total_count) ==
  IF total_count < 0
    THEN [ok |-> FALSE, value |-> 0, err |-> "TryFromIntError"]
    ELSE [ok |-> TRUE, value |-> total_count, err |-> "-"]

(***************************************************************************)
(* What callers pass and what the remote service may answer.  The service  *)
(* is not under the client's control: every outcome is possible for every  *)
(* request.                                                                *)
(***************************************************************************)
Names == {"toolchain", "tools"}
Systems == {"x86_64-linux", "aarch64-darwin", "unsupported-os"}
DescriptorsOf(name) == IF name = "toolchain" THEN <<"hello", "curl">> ELSE <<>>

PackageGroups ==
  {[descriptors |-> DescriptorsOf(n), name |-> n, system |-> s] :
     n \in Names, s \in Systems}

ResolveInputs ==
  {[NoArgs EXCEPT !.groups = g] : g \in SeqsUpTo(PackageGroups, MaxGroups)}

Page0 == [packages |-> <<>>, page |-> 0, url |-> "https://cache.example/page0"]
Page1 == [packages |-> <<"hello-2.12">>, page |-> 1, url |-> "https://cache.example/page1"]

\* no page, one page, two pages out of page order
PageSeqs == {<<>>, <<Page0>>, <<Page1, Page0>>}

WireGroups ==
  {[name |-> ns[1], system |-> ns[2], pages |-> ps] :
     ns \in {<<"toolchain", "X8664Linux">>, <<"tools", "Aarch64Darwin">>},
     ps \in PageSeqs}

Failures == {[NoResponse EXCEPT !.tag = "Err", !.shape = e] : e \in APIError}

ResolveOutcomes ==
  Failures \cup
  {[NoResponse EXCEPT !.tag = "Ok", !.items = items] :
     items \in SeqsUpTo(WireGroups, MaxItems)}

Terms == {"hello", "", "bad term!"}
Limits == {10, 255}

SearchInputs ==
  {[NoArgs EXCEPT !.term = t, !.system = s, !.limit = l] :
     t \in Terms, s \in Systems, l \in Limits}

Chars == {"a", "b", "."}

Hits ==
  {[system |-> "X8664Linux", attr_path |-> p, pname |-> "hello",
    version |-> "2.12", description |-> "...", license |-> "GPL-3.0"] :
     p \in SeqsUpTo(Chars, MaxPathLen)}

TotalCounts == {-1, 0, 2}

SearchOutcomes ==
  Failures \cup
  {[NoResponse EXCEPT !.tag = "Ok", !.items = items, !.total_count = n] :
     items \in SeqsUpTo(Hits, MaxHits), n \in TotalCounts}

(***************************************************************************)
(* impl ClientTrait for CatalogClient.                                     *)
(***************************************************************************)
\* resolve up to the remote call, had it dropped the groups that do not
\* convert instead of failing
resolve_arguments_filter_ok(a) ==
  LET items == SelectSeq([i \in 1..Len(a.groups) |-> PackageGroup_try_from(a.groups[i])],
                         LAMBDA r : r.ok)
  IN [ok |-> TRUE,
      request |-> [NoRequest EXCEPT !.op = "resolve",
                                    !.items = [i \in 1..Len(items) |-> items[i].value]],
      err |-> NoResult]

\* resolve up to the remote call: the conversion of the groups to wire form
\* and the body of the one request
resolve_arguments(a) ==
  LET items == collect([i \in 1..Len(a.groups) |-> PackageGroup_try_from(a.groups[i])])
  IN IF items.ok
       THEN [ok |-> TRUE,
             request |-> [NoRequest EXCEPT !.op = "resolve", !.items = items.value],
             err |-> NoResult]
       ELSE [ok |-> FALSE, request |-> NoRequest,
             err |-> CatalogClientError_into(items.err)]

\* resolve, had it issued one remote call per group
CatalogClient_resolve_per_group(c, inputs) ==
  /\ client = "Catalog"
  /\ pc[c] = "idle"
  /\ \E a \in inputs :
       /\ op' = [op EXCEPT ![c] = "resolve"]
       /\ args' = [args EXCEPT ![c] = a]
       /\ LET package_groups == resolve_arguments(a)
          IN IF package_groups.ok
               THEN /\ request' = [request EXCEPT ![c] =
                                    [package_groups.request EXCEPT
                                       !.items = IF Len(@) = 0 THEN @ ELSE <<@[Len(@)]>>]]
                    /\ calls' = [calls EXCEPT ![c] = @ + Len(a.groups)]
                    /\ pc' = [pc EXCEPT ![c] = "awaiting"]
                    /\ UNCHANGED result
               ELSE /\ result' = [result EXCEPT ![c] = package_groups.err]
                    /\ pc' = [pc EXCEPT ![c] = "done"]
                    /\ UNCHANGED <<request, calls>>
       /\ UNCHANGED <<client, endpoint, response>>

\* resolve, from the call to the await of the remote call
CatalogClient_resolve(c, inputs) ==
  /\ client = "Catalog"
  /\ pc[c] = "idle"
  /\ \E a \in inputs :
       /\ op' = [op EXCEPT ![c] = "resolve"]
       /\ args' = [args EXCEPT ![c] = a]
       /\ LET package_groups == resolve_arguments(a)
          IN IF package_groups.ok
               THEN /\ request' = [request EXCEPT ![c] = package_groups.request]
                    /\ calls' = [calls EXCEPT ![c] = @ + 1]
                    /\ pc' = [pc EXCEPT ![c] = "awaiting"]
                    /\ UNCHANGED result
               ELSE /\ result' = [result EXCEPT ![c] = package_groups.err]
                    /\ pc' = [pc EXCEPT ![c] = "done"]
                    /\ UNCHANGED <<request, calls>>
       /\ UNCHANGED <<client, endpoint, response>>

\* resolve, from the outcome of the remote call to the return
resolve_outcome(outcome) ==
  IF outcome.tag = "Err"
    THEN IF is_unexpected_error(outcome.shape)
           THEN CatalogClientError_into([cause |-> "UnexpectedError", source |-> outcome.shape])
           ELSE Err("Resolve", "-", outcome.shape)
    ELSE LET groups == collect([i \in 1..Len(outcome.items) |->
                                  ResolvedPackageGroup_try_from(outcome.items[i])])
         IN IF groups.ok
              THEN [NoResult EXCEPT !.tag = "Ok", !.groups = groups.value]
              ELSE CatalogClientError_into(groups.err)

\* the second half of resolve, had the client kept the last response in a
\* buffer shared by its invocations
CatalogClient_resolve_resume_shared(c, outcomes) ==
  /\ pc[c] = "awaiting"
  /\ op[c] = "resolve"
  /\ \E outcome \in outcomes :
       /\ response' = [response EXCEPT ![c] = outcome]
       /\ LET others == {d \in DOMAIN pc \ {c} : op[d] = "resolve" /\ response[d].tag # "None"}
          IN result' = [result EXCEPT ![c] =
                          IF others = {} THEN resolve_outcome(outcome)
                          ELSE resolve_outcome(response[CHOOSE d \in others : TRUE])]
       /\ pc' = [pc EXCEPT ![c] = "done"]
       /\ UNCHANGED <<client, endpoint, op, args, request, calls>>

CatalogClient_resolve_resume(c, outcomes) ==
  /\ pc[c] = "awaiting"
  /\ op[c] = "resolve"
  /\ \E outcome \in outcomes :
       /\ response' = [response EXCEPT ![c] = outcome]
       /\ result' = [result EXCEPT ![c] = resolve_outcome(outcome)]
       /\ pc' = [pc EXCEPT ![c] = "done"]
       /\ UNCHANGED <<client, endpoint, op, args, request, calls>>

\* search up to the remote call, had it converted the system before the term
search_arguments_system_first(a) ==
  LET search_term == SearchTerm_from_str(a.term)
      system == SystemEnum_try_from(a.system)
  IN IF ~system.ok
       THEN [ok |-> FALSE, request |-> NoRequest,
             err |-> CatalogClientError_into(
                       [cause |-> "UnsupportedSystem", source |-> system.err])]
     ELSE IF ~search_term.ok
       THEN [ok |-> FALSE, request |-> NoRequest,
             err |-> Err("InvalidSearchTerm", "-", search_term.err)]
     ELSE [ok |-> TRUE,
           request |-> [NoRequest EXCEPT !.op = "search",
                                         !.catalogs = <<NIXPKGS_CATALOG>>,
                                         !.limit = <<a.limit>>,
                                         !.term = search_term.value,
                                         !.system = system.value],
           err |-> NoResult]

\* search up to the remote call, had it mapped both conversion failures to
\* InvalidSearchTerm
search_arguments_one_variant(a) ==
  LET search_term == SearchTerm_from_str(a.term)
      system == SystemEnum_try_from(a.system)
  IN IF ~search_term.ok
       THEN [ok |-> FALSE, request |-> NoRequest,
             err |-> Err("InvalidSearchTerm", "-", search_term.err)]
     ELSE IF ~system.ok
       THEN [ok |-> FALSE, request |-> NoRequest,
             err |-> Err("InvalidSearchTerm", "-", system.err)]
     ELSE [ok |-> TRUE,
           request |-> [NoRequest EXCEPT !.op = "search",
                                         !.catalogs = <<NIXPKGS_CATALOG>>,
                                         !.limit = <<a.limit>>,
                                         !.term = search_term.value,
                                         !.system = system.value],
           err |-> NoResult]

\* search up to the remote call: the arguments of the remote call are
\* evaluated left to right, the term before the system
search_arguments(a) ==
  LET search_term == SearchTerm_from_str(a.term)
      system == SystemEnum_try_from(a.system)
  IN IF ~search_term.ok
       THEN [ok |-> FALSE, request |-> NoRequest,
             err |-> Err("InvalidSearchTerm", "-", search_term.err)]
     ELSE IF ~system.ok
       THEN [ok |-> FALSE, request |-> NoRequest,
             err |-> CatalogClientError_into(
                       [cause |-> "UnsupportedSystem", source |-> system.err])]
     ELSE [ok |-> TRUE,
           request |-> [NoRequest EXCEPT !.op = "search",
                                         !.catalogs = <<NIXPKGS_CATALOG>>,
                                         !.limit = <<a.limit>>,
                                         !.term = search_term.value,
                                         !.system = system.value],
           err |-> NoResult]

\* search, from the call to the await of the remote call
CatalogClient_search(c, inputs) ==
  /\ client = "Catalog"
  /\ pc[c] = "idle"
  /\ \E a \in inputs :
       /\ op' = [op EXCEPT ![c] = "search"]
       /\ args' = [args EXCEPT ![c] = a]
       /\ LET arguments == search_arguments(a)
          IN IF arguments.ok
               THEN /\ request' = [request EXCEPT ![c] = arguments.request]
                    /\ calls' = [calls EXCEPT ![c] = @ + 1]
                    /\ pc' = [pc EXCEPT ![c] = "awaiting"]
                    /\ UNCHANGED result
               ELSE /\ result' = [result EXCEPT ![c] = arguments.err]
                    /\ pc' = [pc EXCEPT ![c] = "done"]
                    /\ UNCHANGED <<request, calls>>
       /\ UNCHANGED <<client, endpoint, response>>

\* search, from the outcome of the remote call to the return
search_outcome(outcome) ==
  IF outcome.tag = "Err"
    THEN IF is_unexpected_error(outcome.shape)
           THEN CatalogClientError_into([cause |-> "UnexpectedError", source |-> outcome.shape])
           ELSE Err("Search", "-", outcome.shape)
    ELSE LET results == collect([i \in 1..Len(outcome.items) |->
                                   SearchResult_try_from(outcome.items[i])])
             count == total_count_try_into(outcome.total_count)
         IN IF ~results.ok THEN results.err
            ELSE IF ~count.ok THEN Err("NegativeNumberOfResults", "-", "-")
            ELSE [NoResult EXCEPT !.tag = "Ok", !.results = results.value,
                                  !.count = <<count.value>>]

CatalogClient_search_resume(c, outcomes) ==
  /\ pc[c] = "awaiting"
  /\ op[c] = "search"
  /\ \E outcome \in outcomes :
       /\ response' = [response EXCEPT ![c] = outcome]
       /\ result' = [result EXCEPT ![c] = search_outcome(outcome)]
       /\ pc' = [pc EXCEPT ![c] = "done"]
       /\ UNCHANGED <<client, endpoint, op, args, request, calls>>

(***************************************************************************)
(* impl ClientTrait for MockClient: both bodies are unimplemented!().      *)
(***************************************************************************)
MockClient_resolve(c, inputs) ==
  /\ client = "Mock"
  /\ pc[c] = "idle"
  /\ \E a \in inputs :
       /\ op' = [op EXCEPT ![c] = "resolve"]
       /\ args' = [args EXCEPT ![c] = a]
       /\ result' = [result EXCEPT ![c] = Panic]
       /\ pc' = [pc EXCEPT ![c] = "panicked"]
       /\ UNCHANGED <<client, endpoint, request, calls, response>>

MockClient_search(c, inputs) ==
  /\ client = "Mock"
  /\ pc[c] = "idle"
  /\ \E a \in inputs :
       /\ op' = [op EXCEPT ![c] = "search"]
       /\ args' = [args EXCEPT ![c] = a]
       /\ result' = [result EXCEPT ![c] = Panic]
       /\ pc' = [pc EXCEPT ![c] = "panicked"]
       /\ UNCHANGED <<client, endpoint, request, calls, response>>

\* the caller takes the result; the invocation's data is dropped
Return(c) ==
  /\ pc[c] = "done"
  /\ pc' = [pc EXCEPT ![c] = "idle"]
  /\ op' = [op EXCEPT ![c] = "-"]
  /\ args' = [args EXCEPT ![c] = NoArgs]
  /\ request' = [request EXCEPT ![c] = NoRequest]
  /\ calls' = [calls EXCEPT ![c] = 0]
  /\ response' = [response EXCEPT ![c] = NoResponse]
  /\ result' = [result EXCEPT ![c] = NoResult]
  /\ UNCHANGED <<client, endpoint>>

(***************************************************************************)
(* One caller at a time, either variant of Client.                         *)
(***************************************************************************)
Slots == DOMAIN pc

InitSlots(S) ==
  /\ endpoint = DEFAULT_CATALOG_URL
  /\ pc = [c \in S |-> "idle"]
  /\ op = [c \in S |-> "-"]
  /\ args = [c \in S |-> NoArgs]
  /\ request = [c \in S |-> NoRequest]
  /\ calls = [c \in S |-> 0]
  /\ response = [c \in S |-> NoResponse]
  /\ result = [c \in S |-> NoResult]

Init ==
  /\ client \in Variants
  /\ InitSlots({1})

Next ==
  \/ \E c \in Slots : CatalogClient_resolve(c, ResolveInputs)
  \/ \E c \in Slots : CatalogClient_resolve_resume(c, ResolveOutcomes)
  \/ \E c \in Slots : CatalogClient_search(c, SearchInputs)
  \/ \E c \in Slots : CatalogClient_search_resume(c, SearchOutcomes)
  \/ \E c \in Slots : MockClient_resolve(c, ResolveInputs)
  \/ \E c \in Slots : MockClient_search(c, SearchInputs)
  \/ \E c \in Slots : Return(c)

Spec == Init /\ [][Next]_vars

(***************************************************************************)
(* The operations as functions of the arguments and of the outcome of the  *)
(* remote call, for one invocation running alone.                          *)
(***************************************************************************)
resolve(a, outcome) ==
  LET package_groups == resolve_arguments(a)
  IN IF package_groups.ok THEN resolve_outcome(outcome) ELSE package_groups.err

search(a, outcome) ==
  LET arguments == search_arguments(a)
  IN IF arguments.ok THEN search_outcome(outcome) ELSE arguments.err

(***************************************************************************)
(* Two callers sharing one live client.                                    *)
(***************************************************************************)
ConcResolveInputs ==
  {a \in ResolveInputs :
     /\ Len(a.groups) <= 2
     /\ \A i \in 1..Len(a.groups) : a.groups[i].system # "aarch64-darwin"
     /\ Len(a.groups) = 2 => a.groups[1].name # a.groups[2].name}

ConcResolveOutcomes ==
  {o \in ResolveOutcomes :
     /\ o.shape \in {"-", "ErrorResponse", "CommunicationError"}
     /\ Len(o.items) <= 1
     /\ \A i \in 1..Len(o.items) : Len(o.items[i].pages) = 1}

ConcSearchInputs ==
  {a \in SearchInputs :
     /\ a.term \in {"hello", "bad term!"}
     /\ a.system # "aarch64-darwin"
     /\ a.limit = 10}

ConcSearchOutcomes ==
  {o \in SearchOutcomes :
     /\ o.shape \in {"-", "ErrorResponse", "CommunicationError"}
     /\ o.total_count \in {-1, 2}
     /\ Len(o.items) <= 1
     /\ \A i \in 1..Len(o.items) : o.items[i].attr_path = <<"a", ".", "b">>}

InitConc ==
  /\ client = "Catalog"
  /\ InitSlots({1, 2})

NextConc ==
  \/ \E c \in Slots : CatalogClient_resolve(c, ConcResolveInputs)
  \/ \E c \in Slots : CatalogClient_resolve_resume(c, ConcResolveOutcomes)
  \/ \E c \in Slots : CatalogClient_search(c, ConcSearchInputs)
  \/ \E c \in Slots : CatalogClient_search_resume(c, ConcSearchOutcomes)
  \/ \E c \in Slots : Return(c)

SpecConc == InitConc /\ [][NextConc]_vars

(***************************************************************************)
(* Properties.                                                             *)
(***************************************************************************)
Live(c) == client = "Catalog" /\ pc[c] = "done"

HasUnsupportedSystem(groups) ==
  \E i \in 1..Len(groups) : groups[i].system \notin SupportedSystems

NoRemoteCall(c) ==
  calls[c] = 0 /\ request[c] = NoRequest /\ response[c] = NoResponse

\* C1: a failed remote call of the live client is classified by its shape
\* alone: an ErrorResponse becomes ResolveError::Resolve in resolve and
\* SearchError::Search in search, every other shape becomes
\* CatalogClientError::UnexpectedError wrapped in the operation's error, and
\* the failure itself is kept as the source.
FailureClassifiedByShape ==
  \A c \in Slots :
    Live(c) /\ response[c].tag = "Err" =>
      /\ result[c].tag = "Err"
      /\ result[c].source = response[c].shape
      /\ IF response[c].shape = "ErrorResponse"
           THEN /\ result[c].kind = (IF op[c] = "resolve" THEN "Resolve" ELSE "Search")
                /\ result[c].cause = "-"
           ELSE /\ result[c].kind = "CatalogClientError"
                /\ result[c].cause = "UnexpectedError"

FailureClassifiedByShapeWitness ==
  \E c \in Slots :
    /\ Live(c)
    /\ op[c] = "search"
    /\ response[c].tag = "Err"
    /\ response[c].shape = "UnexpectedResponse"
    /\ result[c].cause = "UnexpectedError"

\* C2: when any group passed to the live client's resolve has an unsupported
\* system, at whatever position, resolve returns
\* ResolveError::CatalogClientError(UnsupportedSystem) and the invocation
\* never reaches the remote call.
UnsupportedSystemFailsResolve ==
  \A c \in Slots :
    client = "Catalog" /\ op[c] = "resolve" /\ HasUnsupportedSystem(args[c].groups) =>
      /\ pc[c] = "done"
      /\ result[c] = Err("CatalogClientError", "UnsupportedSystem", "ConversionError")
      /\ NoRemoteCall(c)

UnsupportedSystemFailsResolveWitness ==
  \E c \in Slots :
    /\ Live(c)
    /\ op[c] = "resolve"
    /\ Len(args[c].groups) = 2
    /\ args[c].groups[1].system \in SupportedSystems
    /\ args[c].groups[2].system \notin SupportedSystems
    /\ result[c].cause = "UnsupportedSystem"

\* C3: when the search term is not accepted by the term grammar, the live
\* client's search returns SearchError::InvalidSearchTerm without a remote
\* call, whatever the system (supported or not) and the limit are.
InvalidTermFailsSearch ==
  \A c \in Slots :
    client = "Catalog" /\ op[c] = "search" /\ args[c].term \notin AcceptedTerms =>
      /\ pc[c] = "done"
      /\ result[c] = Err("InvalidSearchTerm", "-", "ConversionError")
      /\ NoRemoteCall(c)

InvalidTermFailsSearchWitness ==
  \E c \in Slots :
    /\ Live(c)
    /\ op[c] = "search"
    /\ args[c].term \notin AcceptedTerms
    /\ args[c].system \notin SupportedSystems
    /\ result[c].kind = "InvalidSearchTerm"

\* C4: when the term is valid and the system is not a supported platform
\* identifier, the live client's search returns
\* SearchError::CatalogClientError(UnsupportedSystem) without a remote call.
UnsupportedSystemFailsSearch ==
  \A c \in Slots :
    /\ client = "Catalog"
    /\ op[c] = "search"
    /\ args[c].term \in AcceptedTerms
    /\ args[c].system \notin SupportedSystems
    => /\ pc[c] = "done"
       /\ result[c] = Err("CatalogClientError", "UnsupportedSystem", "ConversionError")
       /\ NoRemoteCall(c)

UnsupportedSystemFailsSearchWitness ==
  \E c \in Slots :
    /\ Live(c)
    /\ op[c] = "search"
    /\ args[c].term = "hello"
    /\ args[c].system = "unsupported-os"
    /\ result[c].cause = "UnsupportedSystem"

\* C5: for a successful search response, a negative total_count makes search
\* return SearchError::NegativeNumberOfResults with no results, whatever the
\* items are; otherwise search returns Ok and count is Some(total_count).
TotalCountConverted ==
  \A c \in Slots :
    Live(c) /\ op[c] = "search" /\ response[c].tag = "Ok" =>
      IF response[c].total_count < 0
        THEN result[c] = Err("NegativeNumberOfResults", "-", "-")
        ELSE /\ result[c].tag = "Ok"
             /\ result[c].count = <<response[c].total_count>>

TotalCountConvertedWitness ==
  \E c \in Slots :
    /\ Live(c)
    /\ op[c] = "search"
    /\ response[c].tag = "Ok"
    /\ response[c].total_count < 0
    /\ Len(response[c].items) > 0
    /\ result[c].kind = "NegativeNumberOfResults"

RECURSIVE Join(_)
Join(segments) ==
  IF Len(segments) = 0 THEN <<>>
  ELSE IF Len(segments) = 1 THEN segments[1]
  ELSE segments[1] \o <<".">> \o Join(Tail(segments))

Dots(path) == Cardinality({i \in 1..Len(path) : path[i] = "."})

\* C6: every hit of a successful search response is converted: no result is
\* ever SearchError::ShortAttributePath, and in an Ok result the i-th
\* rel_path is the i-th attribute path split on '.': its segments hold no
\* '.', joined with '.' they give the path back, and there is one more
\* segment than the path has dots, so at least one.
RelPathIsSplitAttrPath ==
  \A c \in Slots :
    /\ result[c].kind # "ShortAttributePath"
    /\ Live(c) /\ op[c] = "search" /\ response[c].tag = "Ok" =>
         /\ result[c].tag = "Ok" \/ result[c].kind = "NegativeNumberOfResults"
         /\ result[c].tag = "Ok" =>
              /\ Len(result[c].results) = Len(response[c].items)
              /\ \A i \in 1..Len(response[c].items) :
                   LET rel_path == result[c].results[i].rel_path
                       attr_path == response[c].items[i].attr_path
                   IN /\ \A k \in 1..Len(rel_path) : Dots(rel_path[k]) = 0
                      /\ Join(rel_path) = attr_path
                      /\ Len(rel_path) = Dots(attr_path) + 1
                      /\ Len(rel_path) >= 1

RelPathIsSplitAttrPathWitness ==
  \E c \in Slots :
    /\ Live(c)
    /\ op[c] = "search"
    /\ result[c].tag = "Ok"
    /\ Len(result[c].results) = 1
    /\ response[c].items[1].attr_path = <<"a", ".", "b">>
    /\ result[c].results[1].rel_path = << <<"a">>, <<"b">> >>

\* C7: through the shared interface the Mock variant returns a typed result
\* (Ok or an error of the operation) that the Catalog variant could return
\* for the same arguments.
MockBehavesAsLive ==
  \A c \in Slots :
    client = "Mock" /\ pc[c] # "idle" =>
      /\ result[c].tag \in {"Ok", "Err"}
      /\ IF op[c] = "resolve"
           THEN \E o \in ResolveOutcomes : result[c] = resolve(args[c], o)
           ELSE \E o \in SearchOutcomes : result[c] = search(args[c], o)

\* C8: when the remote resolve call succeeds, resolve returns Ok with one
\* ResolvedPackageGroup per item in response order, each with the item's
\* name and system and with the item's pages in response order, packages,
\* page and url unchanged; an item without pages gives a group without pages.
ResolveMapsResponse ==
  \A c \in Slots :
    Live(c) /\ op[c] = "resolve" /\ response[c].tag = "Ok" =>
      /\ result[c].tag = "Ok"
      /\ Len(result[c].groups) = Len(response[c].items)
      /\ \A i \in 1..Len(response[c].items) :
           LET group == result[c].groups[i]
               item == response[c].items[i]
           IN /\ group.name = item.name
              /\ group.system \in SupportedSystems
              /\ SystemEnum[group.system] = item.system
              /\ Len(group.pages) = Len(item.pages)
              /\ \A j \in 1..Len(item.pages) :
                   /\ group.pages[j].packages = item.pages[j].packages
                   /\ group.pages[j].page = item.pages[j].page
                   /\ group.pages[j].url = item.pages[j].url

ResolveMapsResponseWitness ==
  \E c \in Slots :
    /\ Live(c)
    /\ op[c] = "resolve"
    /\ result[c].tag = "Ok"
    /\ Len(result[c].groups) = 2
    /\ Len(result[c].groups[1].pages) = 0
    /\ Len(result[c].groups[2].pages) = 2
    /\ result[c].groups[2].pages[1].page = 1
    /\ result[c].groups[2].pages[2].page = 0

SlotState(c) == <<pc[c], op[c], args[c], request[c], calls[c], response[c], result[c]>>

\* C9: with two invocations running concurrently against one live client,
\* in every interleaving a step of one invocation leaves the other
\* invocation's data and the client's endpoint unchanged, and an invocation
\* that returns holds the result of its operation run alone on its own
\* arguments and its own remote outcome.
InvocationsIsolated ==
  [][/\ endpoint' = endpoint
     /\ \A c \in Slots :
          /\ SlotState(c)' # SlotState(c) =>
               \A d \in Slots \ {c} : SlotState(d)' = SlotState(d)
          /\ pc'[c] = "done" =>
               result'[c] = IF op'[c] = "resolve"
                              THEN resolve(args'[c], response'[c])
                              ELSE search(args'[c], response'[c])]_vars

InvocationsIsolatedWitness ==
  /\ client = "Catalog"
  /\ pc[1] = "done"
  /\ op[1] = "resolve"
  /\ result[1].tag = "Ok"
  /\ pc[2] = "done"
  /\ op[2] = "resolve"
  /\ args[2] = args[1]
  /\ result[2].tag = "Err"

InputsPassValidation(c) ==
  IF op[c] = "resolve"
    THEN ~HasUnsupportedSystem(args[c].groups)
    ELSE args[c].term \in AcceptedTerms /\ args[c].system \in SupportedSystems

\* C10: an invocation of the live client whose inputs pass local validation
\* issues exactly one remote call, also after the call failed and also when
\* another invocation had the same arguments; resolve's one request carries
\* all the groups in input order; an invocation whose inputs fail validation
\* issues no remote call.
OneRemoteCall ==
  \A c \in Slots :
    IF pc[c] = "idle" THEN NoRemoteCall(c)
    ELSE IF ~InputsPassValidation(c) THEN NoRemoteCall(c)
    ELSE /\ calls[c] = 1
         /\ request[c].op = op[c]
         /\ op[c] = "resolve" =>
              /\ Len(request[c].items) = Len(args[c].groups)
              /\ \A i \in 1..Len(args[c].groups) :
                   /\ request[c].items[i].name = args[c].groups[i].name
                   /\ request[c].items[i].descriptors = args[c].groups[i].descriptors
                   /\ request[c].items[i].system = SystemEnum[args[c].groups[i].system]
         /\ op[c] = "search" =>
              /\ request[c].term = args[c].term
              /\ request[c].system = SystemEnum[args[c].system]
              /\ request[c].limit = <<args[c].limit>>

OneRemoteCallWitness ==
  /\ client = "Catalog"
  /\ pc[1] = "done"
  /\ pc[2] = "done"
  /\ op[1] = "resolve"
  /\ op[2] = "resolve"
  /\ args[1] = args[2]
  /\ Len(args[1].groups) = 2
  /\ calls[1] = 1
  /\ calls[2] = 1
  /\ response[1].tag = "Err"
  /\ response[2].tag = "Ok"

====
